---- MODULE Spec2Model ----
(***************************************************************************)
(* DataverseClient (src/DataverseClient/DataverseClient/src/               *)
(* DataverseClient.py): construction (configuration, token acquisition,    *)
(* session), get_rows (paginated read) and insert_rows (row-by-row POST).  *)
(*                                                                         *)
(* Python values are encoded so that TLC can compare them:                 *)
(*   - an optional value is a sequence of length 0 (None / key absent) or  *)
(*     1 (the value): None == <<>>, Some(x) == <<x>>;                      *)
(*   - a header dictionary is a set of <<name, value>> pairs with at most  *)
(*     one pair per name;                                                  *)
(*   - a JSON object / table row is a sequence of <<key, value>> pairs     *)
(*     (key order = document order), every scalar a string;                *)
(*   - an f-string is the tuple of its literal and interpolated pieces.    *)
(***************************************************************************)
EXTENDS Integers, Sequences, FiniteSets, TLC

\* ------------------------------------------------------------------ bounds
\* Largest number of GETs one get_rows call may issue in the model.
MaxGets == 3
\* Largest number of rows of a DataFrame handed to insert_rows.
MaxRows == 3

\* ------------------------------------------------------- Python encodings
None == <<>>
Some(x) == <<x>>

Range(s) == {s[i] : i \in 1..Len(s)}

\* body.get(key) inside an f-string: str(None) is "None".
Get(o) == IF o = None THEN "None" ELSE o[1]

\* Truth value of an int | None (`if top:`): None and 0 are false.
TruthyInt(o) == o # None /\ o[1] # 0

\* Truth value of a str | None (`if filter:`): None and "" are false.
TruthyStr(o) == o # None /\ o[1] # ""

\* sep.join(parts)
RECURSIVE Join(_, _)
Join(sep, parts) ==
    IF Len(parts) = 0 THEN ""
    ELSE IF Len(parts) = 1 THEN parts[1]
    ELSE parts[1] \o sep \o Join(sep, Tail(parts))

\* ---------------------------------------------------------------- headers
HeaderNames(h) == {p[1] : p \in h}

\* dict.update: every key of `new` replaces the entry of the same name.
Update(h, new) == {p \in h : p[1] \notin HeaderNames(new)} \cup new

\* requests merges the per-request headers over the session's headers
\* (Session.request -> merge_setting): the request's entries win.
MergeHeaders(sessionHeaders, requestHeaders) == Update(sessionHeaders, requestHeaders)

\* Headers a fresh requests.Session() starts with (requests.utils.default_headers).
DefaultHeaders ==
    { <<"User-Agent", "python-requests">>,
      <<"Accept-Encoding", "gzip, deflate">>,
      <<"Accept", "*/*">>,
      <<"Connection", "keep-alive">> }

BearerHeader(token) == { <<"Authorization", "Bearer " \o token>> }

FixedHeadersNoAccept ==
    { <<"OData-MaxVersion", "4.0">>, <<"OData-Version", "4.0">> }

FixedHeaders ==
    { <<"OData-MaxVersion", "4.0">>,
      <<"OData-Version", "4.0">>,
      <<"Accept", "application/json">> }

PreferHeader == { <<"Prefer", "odata.include-annotations=*">> }

ContentTypeHeader == { <<"Content-Type", "application/json; charset=utf-8">> }

\* ----------------------------------------------------------- configuration
\* Keys get_authenticated_session reads, in the order it reads them.
KeysReadAfterDeferral == <<"environmentURI", "scopeSuffix", "clientID", "authorityBase">>

KeysRead == <<"environmentURI", "scopeSuffix", "clientID", "authorityBase", "tenantID">>

RequiredKeys == {"environmentURI", "scopeSuffix", "clientID", "authorityBase", "tenantID"}

\* A complete configuration file (key, value pairs).
FullConfig ==
    { <<"environmentURI", "https://org.crm4.dynamics.com/">>,
      <<"scopeSuffix", "user_impersonation">>,
      <<"clientID", "client-1">>,
      <<"authorityBase", "https://login.microsoftonline.com/">>,
      <<"tenantID", "tenant-1">> }

\* The configuration files considered: the complete one with any keys removed.
Configs == { {p \in FullConfig : p[1] \in K} : K \in SUBSET RequiredKeys }

ConfigKeys(cfg) == {p[1] : p \in cfg}

ConfigValue(cfg, key) == (CHOOSE p \in cfg : p[1] = key)[2]

\* Index in `keys` of the first key whose lookup raises KeyError, 0 if none does.
FirstMissing(cfg, keys) ==
    LET bad == {i \in 1..Len(keys) : keys[i] \notin ConfigKeys(cfg)}
    IN  IF bad = {} THEN 0 ELSE CHOOSE i \in bad : \A j \in bad : i <= j

\* ------------------------------------------------------------- DataFrame
\* A table row as the service sends it (one JSON object): its keys in
\* document order and the value under each key.
Row1 == [keys |-> <<"name">>, vals |-> [name |-> "Contoso"]]
Row2 == [keys |-> <<"name", "revenue">>, vals |-> [name |-> "Fabrikam", revenue |-> "100"]]
Rows == {Row1, Row2}

\* cols followed by the keys not yet among them, in their own order.
AppendNew(cols, keys) ==
    LET Unseen(k) == k \notin Range(cols)
    IN  cols \o SelectSeq(keys, Unseen)

\* Column labels of pd.DataFrame(rows): the keys in order of first appearance.
RECURSIVE ColumnsOf(_)
ColumnsOf(rows) ==
    IF Len(rows) = 0 THEN <<>>
    ELSE AppendNew(ColumnsOf(SubSeq(rows, 1, Len(rows) - 1)), rows[Len(rows)].keys)

\* The cells of one row under the given column labels; a missing key is NaN.
Cells(vals, cols) ==
    [c \in Range(cols) |-> IF c \in DOMAIN vals THEN vals[c] ELSE "NaN"]

\* pd.DataFrame(rows): the column labels and, per row, its cells under them;
\* the index is the RangeIndex 0..n-1 (row i of data has label i-1).
DataFrame(rows) ==
    [columns |-> ColumnsOf(rows),
     data |-> [i \in 1..Len(rows) |-> Cells(rows[i].vals, ColumnsOf(rows))]]

\* The rows of a frame under a wider list of column labels.
Realign(data, cols) == [i \in 1..Len(data) |-> Cells(data[i], cols)]

\* Variant of ConcatFrames that puts the new page in front.
ConcatFramesPrepend(acc, page) ==
    [columns |-> AppendNew(acc.columns, page.columns),
     data |-> Realign(page.data, AppendNew(acc.columns, page.columns))
                \o Realign(acc.data, AppendNew(acc.columns, page.columns))]

\* pd.concat([acc, page], ignore_index=True): outer join of the columns,
\* the rows of acc followed by the rows of page, renumbered.
ConcatFrames(acc, page) ==
    [columns |-> AppendNew(acc.columns, page.columns),
     data |-> Realign(acc.data, AppendNew(acc.columns, page.columns))
                \o Realign(page.data, AppendNew(acc.columns, page.columns))]

EmptyFrame == DataFrame(<<>>)

\* json.loads(row.to_json()) for row i of a frame: every column of the frame
\* is a key, in column order, and NaN is serialised as null.
Payload(frame, i) ==
    [j \in 1..Len(frame.columns) |->
        <<frame.columns[j],
          IF frame.data[i][frame.columns[j]] = "NaN" THEN "null"
          ELSE frame.data[i][frame.columns[j]]>>]

RECURSIVE SeqsUpTo(_, _)
SeqsUpTo(S, n) ==
    IF n = 0 THEN {<<>>}
    ELSE LET shorter == SeqsUpTo(S, n - 1)
         IN  shorter \cup {Append(s, x) : s \in shorter, x \in S}

\* The DataFrames handed to insert_rows.
InputFrames == {DataFrame(rows) : rows \in SeqsUpTo(Rows, MaxRows)}

\* ------------------------------------------------------------ environment
Tokens == {"eyJ0eXAi"}

\* What acquire_token_interactive returns: a token, or an error triple.
TokenResults ==
    [access_token : {Some(t) : t \in Tokens},
     error : {None}, error_description : {None}, correlation_id : {None}]
    \cup
    [access_token : {None},
     error : {Some("access_denied")},
     error_description : {Some("AADSTS65004: user declined")},
     correlation_id : {Some("corr-1"), Some("corr-2")}]

Link1 == "https://org.crm4.dynamics.com/api/data/v9.2/accounts?$skiptoken=1"
Link2 == "https://org.crm4.dynamics.com/api/data/v9.2/accounts?$skiptoken=2"

\* Responses to a GET. value / nextLink are the keys "value" and
\* "@odata.nextLink" of the JSON body (None: key absent or null).
GetResponses ==
    [status_code : {200}, content : {"{...}"},
     value : {None, Some(<<Row1>>), Some(<<Row2, Row1>>)},
     nextLink : {None, Some(Link1), Some(Link2)}]
    \cup
    { [status_code |-> 404, content |-> "entity not found", value |-> None, nextLink |-> None],
      [status_code |-> 503, content |-> "service unavailable", value |-> None, nextLink |-> None] }

\* Responses to a POST.
PostResponses ==
    { [status_code |-> 204, content |-> ""],
      [status_code |-> 200, content |-> "{...}"],
      [status_code |-> 400, content |-> "bad request"] }

\* Arguments get_rows / insert_rows are called with.
Entities == {"accounts"}
\* (top, columns, filter) of a read: every combination of supplied and not
\* supplied, the falsy values 0 and "", and the documented example.
GetArgs ==
    [top : {None, Some(5)}, columns : {<<>>, <<"name", "revenue">>},
     filter : {None, Some("name eq 'x'")}]
    \cup
    { [top |-> Some(0), columns |-> <<>>, filter |-> None],
      [top |-> None, columns |-> <<>>, filter |-> Some("")],
      [top |-> Some(5), columns |-> <<"name">>, filter |-> Some("name eq 'x'")] }

\* ------------------------------------------------------- code fragments
\* Session headers after lines 60-62: a fresh Session, updated with the
\* Authorization header, then with the fixed headers.
NewSessionHeaders(token) == Update(Update(DefaultHeaders, BearerHeader(token)), FixedHeaders)

\* Variant of AuthFailedMessage that drops the description.
AuthFailedMessageShort(res) == <<"Authentication failed: ", Get(res.error)>>

\* The message of the exception raised at line 66.
AuthFailedMessage(res) ==
    <<"Authentication failed: ", Get(res.error), ", ", Get(res.error_description)>>

\* The message logged at line 65.
AuthFailedLog(res) ==
    <<"Failed to obtain token: ", Get(res.error), "\nDescription: ",
      Get(res.error_description), "\nCorrelation ID: ", Get(res.correlation_id)>>

\* Variant of PrepareGetHeaders that updates the session's dictionary in place.
PrepareGetHeadersInPlace(sessionHeaders, annotations) ==
    LET h == IF annotations THEN Update(sessionHeaders, PreferHeader) ELSE sessionHeaders
    IN  [session |-> h, get_headers |-> h]

\* Lines 82-84: get_headers is a copy of the session's headers, with Prefer
\* added when annotations are asked for; the session's own headers stay.
PrepareGetHeaders(sessionHeaders, annotations) ==
    [session |-> sessionHeaders,
     get_headers |-> IF annotations THEN Update(sessionHeaders, PreferHeader)
                     ELSE sessionHeaders]

\* Lines 132-133: insert_headers is a new dict made from the session's
\* headers, with Content-Type added; the session's own headers stay.
PrepareInsertHeaders(sessionHeaders) ==
    [session |-> sessionHeaders,
     insert_headers |-> Update(sessionHeaders, ContentTypeHeader)]

\* Line 135, and line 86: the URI of the entity's collection.
EntityURI(base, entity) == base \o "api/data/v9.2/" \o entity

\* Lines 86-97: the URI of the first GET.
BuildRequestURI(base, entity, top, columns, filter) ==
    LET topParam == IF TruthyInt(top) THEN <<"$top=" \o ToString(top[1])>> ELSE <<>>
        selectParam == IF Len(columns) > 0 THEN <<"$select=" \o Join(",", columns)>> ELSE <<>>
        filterParam == IF TruthyStr(filter) THEN <<"$filter=" \o filter[1]>> ELSE <<>>
        queryParams == topParam \o selectParam \o filterParam
    IN  IF Len(queryParams) > 0
        THEN EntityURI(base, entity) \o "?" \o Join("&", queryParams)
        ELSE EntityURI(base, entity)

\* Variant of StatusOK that also takes a 404 for an (empty) result.
StatusOKOrNotFound(status_code) == status_code \in {200, 404}

\* Lines 101 and 111: the read's success test.
StatusOK(status_code) == status_code = 200

\* Variant of InsertOK that takes every 2xx status for a success.
InsertOKAny2xx(status_code) == status_code \in {200, 204}

\* Line 141: the insert's success test.
InsertOK(status_code) == status_code = 204

\* Lines 106 and 116: data.get("value", []).
RowsOf(data) == IF data.value = None THEN <<>> ELSE data.value[1]

\* Variant of LoopContinues that also stops at a page without rows.
LoopContinuesWhileRows(data) == data.nextLink # None /\ Len(RowsOf(data)) > 0

\* Line 108: data.get('@odata.nextLink') is not None.
LoopContinues(data) == data.nextLink # None

\* Lines 102-103: the text logged and raised for a failed GET.
RequestFailedLog(resp) ==
    <<"Request failed. Error code: ", ToString(resp.status_code),
      ". Response: ", resp.content>>

RequestFailedMessage(resp) ==
    <<"Request failed with status code ", ToString(resp.status_code),
      ". Response: ", resp.content>>

\* Line 118.
RetrievedLog(frame, entity) ==
    <<"Retrieved ", ToString(Len(frame.data)), " rows from entity '", entity, "'.">>

\* Lines 142 and 144; label is the row's index label.
InsertFailedLog(label, resp) ==
    <<"Insert failed for row ", ToString(label), ". Error code: ",
      ToString(resp.status_code), ". Response: ", resp.content>>

InsertedLog(label, entity) ==
    <<"Row ", ToString(label), " inserted successfully into entity '", entity, "'.">>

LogEntry(logger, level, msg) == [logger |-> logger, level |-> level, msg |-> msg]

\* ------------------------------------------------------------------ state
VARIABLES
    config,          \* the configuration file's content
    pc,              \* where the program is
    authCalls,       \* calls of acquire_token_interactive so far
    result,          \* what acquire_token_interactive returned
    session,         \* self.session: [exists, headers]
    environmentURI,  \* self.environmentURI (None until construction succeeds)
    previous,        \* <<operation, annotations>> of the call before this one
    call,            \* arguments of the call in progress (or of the last one)
    callHeaders,     \* get_headers / insert_headers of the call
    requestURI,      \* requestURI, then next_url: where the next request goes
    idx,             \* insert_rows: rows handled so far
    sent,            \* HTTP requests the call has issued, in order
    recv,            \* the responses to them, in order
    df,              \* get_rows: the accumulated DataFrame
    exc,             \* the exception the last operation raised, if any
    ret,             \* what the last call returned, if it returned
    log              \* logging calls made since the call began (before the
                     \* first call: since construction began)

vars == <<config, pc, authCalls, result, session, environmentURI, previous,
          call, callHeaders, requestURI, idx, sent, recv, df, exc, ret, log>>

constructionVars == <<config, authCalls, result, session, environmentURI>>
callVars == <<previous, call, callHeaders, requestURI, idx, sent, recv, df, ret>>

NoSession == [exists |-> FALSE, headers |-> {}]
NoResult == [access_token |-> None, error |-> None, error_description |-> None,
             correlation_id |-> None]
NoException == [type |-> "", msg |-> <<>>]
NotReturned == [kind |-> "none", frame |-> EmptyFrame]
ReturnedNone == [kind |-> "None", frame |-> EmptyFrame]
ReturnedFrame(frame) == [kind |-> "DataFrame", frame |-> frame]
NoCall == [op |-> "none", entity |-> "", top |-> None, columns |-> <<>>,
           filter |-> None, annotations |-> FALSE, frame |-> EmptyFrame]

Init ==
    /\ config \in Configs
    /\ pc = "new"
    /\ authCalls = 0
    /\ result = NoResult
    /\ session = NoSession
    /\ environmentURI = None
    /\ previous = <<"none", FALSE>>
    /\ call = NoCall
    /\ callHeaders = {}
    /\ requestURI = ""
    /\ idx = 0
    /\ sent = <<>>
    /\ recv = <<>>
    /\ df = EmptyFrame
    /\ exc = NoException
    /\ ret = NotReturned
    /\ log = <<>>

\* ------------------------------------------------------------ construction
\* Lines 44-48: load the file and read the five keys; a missing key raises
\* KeyError out of __init__.
ReadConfig ==
    /\ pc = "new"
    /\ LET missing == FirstMissing(config, KeysRead)
       IN  IF missing # 0
           THEN /\ pc' = "config_error"
                /\ exc' = [type |-> "KeyError", msg |-> <<KeysRead[missing]>>]
           ELSE /\ pc' = "acquire"
                /\ exc' = exc
    /\ UNCHANGED <<constructionVars, callVars, log>>

\* Lines 50-56: build the MSAL application and ask it for a token.
AcquireToken ==
    /\ pc = "acquire"
    /\ authCalls' = authCalls + 1
    /\ \E res \in TokenResults : result' = res
    /\ log' = Append(log, LogEntry("root", "INFO", <<"Obtaining new token from Azure Entra ID...">>))
    /\ pc' = "token"
    /\ UNCHANGED <<config, session, environmentURI, callVars, exc>>

\* Lines 58-66 and 20-22: with a token, build the session and store it and
\* the base URI; without one, log the error triple and raise.
BuildSession ==
    /\ pc = "token"
    /\ IF result.access_token # None
       THEN /\ session' = [exists |-> TRUE,
                           headers |-> NewSessionHeaders(result.access_token[1])]
            /\ environmentURI' = Some(ConfigValue(config, "environmentURI"))
            /\ log' = Append(log, LogEntry("root", "INFO", <<"Token obtained successfully.">>))
            /\ exc' = exc
            /\ pc' = "ready"
       ELSE /\ log' = Append(log, LogEntry("root", "ERROR", AuthFailedLog(result)))
            /\ exc' = [type |-> "Exception", msg |-> AuthFailedMessage(result)]
            /\ pc' = "auth_error"
            /\ UNCHANGED <<session, environmentURI>>
    /\ UNCHANGED <<config, authCalls, result, callVars>>

\* ---------------------------------------------------------------- get_rows
Request(method, uri, headers, json) ==
    [method |-> method, uri |-> uri, headers |-> headers, json |-> json]

LastResponse == recv[Len(recv)]

\* Lines 68-97: the call, its headers and its request URI.
GetRowsCall ==
    /\ pc = "ready"
    /\ \E entity \in Entities, args \in GetArgs, annotations \in BOOLEAN :
            LET prepared == PrepareGetHeaders(session.headers, annotations)
            IN  /\ session' = [session EXCEPT !.headers = prepared.session]
                /\ callHeaders' = prepared.get_headers
                /\ requestURI' = BuildRequestURI(environmentURI[1], entity, args.top,
                                                 args.columns, args.filter)
                /\ call' = [op |-> "get_rows", entity |-> entity, top |-> args.top,
                            columns |-> args.columns, filter |-> args.filter,
                            annotations |-> annotations, frame |-> EmptyFrame]
    /\ previous' = <<call.op, call.annotations>>
    /\ idx' = 0
    /\ sent' = <<>>
    /\ recv' = <<>>
    /\ df' = EmptyFrame
    /\ exc' = NoException
    /\ ret' = NotReturned
    /\ log' = <<>>
    /\ pc' = "get_first"
    /\ UNCHANGED <<config, authCalls, result, environmentURI>>

\* Line 99: r = self.session.get(requestURI, headers=get_headers).
SendGetFirst ==
    /\ pc = "get_first"
    /\ sent' = Append(sent, Request("GET", requestURI,
                                    MergeHeaders(session.headers, callHeaders), None))
    /\ \E resp \in GetResponses : recv' = Append(recv, resp)
    /\ pc' = "get_first_check"
    /\ UNCHANGED <<constructionVars, previous, call, callHeaders, requestURI,
                   idx, df, exc, ret, log>>

\* What both status checks do with a failed response (lines 102-103, 112-113).
RaiseRequestFailed ==
    /\ log' = Append(log, LogEntry("DataverseClient", "ERROR", RequestFailedLog(LastResponse)))
    /\ exc' = [type |-> "Exception", msg |-> RequestFailedMessage(LastResponse)]
    /\ pc' = "ready"
    /\ UNCHANGED <<df, ret, requestURI>>

\* The loop test of line 108 on the page just parsed, then either line 109
\* (another page) or lines 118-119 (log and return).
LoopOrReturn(frame) ==
    /\ df' = frame
    /\ exc' = exc
    /\ IF LoopContinues(LastResponse)
       THEN /\ requestURI' = LastResponse.nextLink[1]
            /\ pc' = "get_next"
            /\ UNCHANGED <<ret, log>>
       ELSE /\ log' = Append(log, LogEntry("DataverseClient", "INFO",
                                           RetrievedLog(frame, call.entity)))
            /\ ret' = ReturnedFrame(frame)
            /\ pc' = "ready"
            /\ UNCHANGED requestURI

\* Lines 101-108: status check of the first response, first DataFrame.
CheckFirst ==
    /\ pc = "get_first_check"
    /\ IF ~StatusOK(LastResponse.status_code)
       THEN RaiseRequestFailed
       ELSE LoopOrReturn(DataFrame(RowsOf(LastResponse)))
    /\ UNCHANGED <<constructionVars, previous, call, callHeaders, idx, sent, recv>>

\* Lines 109-110: r = self.session.get(next_url), no per-request headers.
\* The model stops issuing GETs at MaxGets.
SendGetNext ==
    /\ pc = "get_next"
    /\ Len(sent) < MaxGets
    /\ sent' = Append(sent, Request("GET", requestURI, MergeHeaders(session.headers, {}), None))
    /\ \E resp \in GetResponses : recv' = Append(recv, resp)
    /\ pc' = "get_next_check"
    /\ UNCHANGED <<constructionVars, previous, call, callHeaders, requestURI,
                   idx, df, exc, ret, log>>

\* Lines 111-117, then the loop test again: status check, append the page.
CheckNext ==
    /\ pc = "get_next_check"
    /\ IF ~StatusOK(LastResponse.status_code)
       THEN RaiseRequestFailed
       ELSE LoopOrReturn(ConcatFrames(df, DataFrame(RowsOf(LastResponse))))
    /\ UNCHANGED <<constructionVars, previous, call, callHeaders, idx, sent, recv>>

\* ------------------------------------------------------------- insert_rows
\* Lines 121-137: the call, its headers and its URI; a frame without rows
\* ends the loop at once and the call returns None.
InsertRowsCall ==
    /\ pc = "ready"
    /\ \E entity \in Entities, frame \in InputFrames :
            LET prepared == PrepareInsertHeaders(session.headers)
            IN  /\ session' = [session EXCEPT !.headers = prepared.session]
                /\ callHeaders' = prepared.insert_headers
                /\ requestURI' = EntityURI(environmentURI[1], entity)
                /\ call' = [op |-> "insert_rows", entity |-> entity, top |-> None,
                            columns |-> <<>>, filter |-> None,
                            annotations |-> FALSE, frame |-> frame]
                /\ IF Len(frame.data) = 0
                   THEN pc' = "ready" /\ ret' = ReturnedNone
                   ELSE pc' = "post" /\ ret' = NotReturned
    /\ previous' = <<call.op, call.annotations>>
    /\ idx' = 0
    /\ sent' = <<>>
    /\ recv' = <<>>
    /\ df' = EmptyFrame
    /\ exc' = NoException
    /\ log' = <<>>
    /\ UNCHANGED <<config, authCalls, result, environmentURI>>

\* Lines 137-144, one iteration: POST the row, log the outcome, go on.
InsertRow ==
    /\ pc = "post"
    /\ idx < Len(call.frame.data)
    /\ sent' = Append(sent, Request("POST", requestURI,
                                    MergeHeaders(session.headers, callHeaders),
                                    Some(Payload(call.frame, idx + 1))))
    /\ \E resp \in PostResponses :
            /\ recv' = Append(recv, resp)
            /\ log' = Append(log,
                   IF ~InsertOK(resp.status_code)
                   THEN LogEntry("DataverseClient", "ERROR", InsertFailedLog(idx, resp))
                   ELSE LogEntry("DataverseClient", "INFO", InsertedLog(idx, call.entity)))
    /\ idx' = idx + 1
    /\ IF idx + 1 = Len(call.frame.data)
       THEN pc' = "ready" /\ ret' = ReturnedNone
       ELSE pc' = "post" /\ ret' = ret
    /\ UNCHANGED <<constructionVars, previous, call, callHeaders, requestURI, df, exc>>

\* ----------------------------------------------------------- specification
Next ==
    \/ ReadConfig
    \/ AcquireToken
    \/ BuildSession
    \/ GetRowsCall
    \/ SendGetFirst
    \/ CheckFirst
    \/ SendGetNext
    \/ CheckNext
    \/ InsertRowsCall
    \/ InsertRow

Spec == Init /\ [][Next]_vars

\* The client's life up to the end of its first call: the same steps, with
\* get_rows / insert_rows called once. A call starts from the same session
\* and base URI whatever was called before, so one call shows how a call runs.
FirstCall == call = NoCall

SingleCallNext ==
    \/ ReadConfig
    \/ AcquireToken
    \/ BuildSession
    \/ FirstCall /\ GetRowsCall
    \/ SendGetFirst
    \/ CheckFirst
    \/ SendGetNext
    \/ CheckNext
    \/ FirstCall /\ InsertRowsCall
    \/ InsertRow

\* The code is sequential and every statement it reaches is executed: once a
\* response has arrived, its status check runs.
SingleCallFairSpec ==
    Init /\ [][SingleCallNext]_vars /\ WF_vars(CheckFirst) /\ WF_vars(CheckNext)

\* ================================================================ claims
\* An f-string carries a value when the value is one of its pieces.
Carries(msg, piece) == piece \in Range(msg)

\* The "value" array of a response body, empty when the key is missing.
ValueArray(resp) == IF resp.value = None THEN <<>> ELSE resp.value[1]

\* The rows of the first n responses, page after page.
RECURSIVE RowsOfPages(_, _)
RowsOfPages(resps, n) ==
    IF n = 0 THEN <<>> ELSE RowsOfPages(resps, n - 1) \o ValueArray(resps[n])

Count(s, Test(_)) == Cardinality({i \in 1..Len(s) : Test(s[i])})

HasLink(resp) == resp.nextLink # None
Is200(resp) == resp.status_code = 200
Is204(resp) == resp.status_code = 204
IsInfo(entry) == entry.level = "INFO"
IsError(entry) == entry.level = "ERROR"

GetRowsEnded == call.op = "get_rows" /\ pc = "ready"
InsertRowsEnded == call.op = "insert_rows" /\ pc = "ready"

\* C1: a read whose every response is 200 and whose first N responses (and no
\* other) carry a next link issues exactly N+1 GETs, the first to the built
\* request URI and each later one to the previous response's next link, and
\* returns the DataFrame of all pages' "value" arrays in page order (a missing
\* "value" contributes no rows); for N = 0 that is the first response's array.
C1_ReadReturnsAllPagesInOrder ==
    (GetRowsEnded /\ \A i \in 1..Len(recv) : Is200(recv[i])) =>
        LET N == Count(recv, HasLink)
        IN  /\ Len(sent) = N + 1
            /\ Len(recv) = N + 1
            /\ \A i \in 1..Len(recv) : HasLink(recv[i]) <=> i <= N
            /\ \A i \in 1..Len(sent) : sent[i].method = "GET"
            /\ sent[1].uri = BuildRequestURI(environmentURI[1], call.entity, call.top,
                                             call.columns, call.filter)
            /\ \A i \in 2..Len(sent) : recv[i - 1].nextLink = Some(sent[i].uri)
            /\ exc = NoException
            /\ ret = ReturnedFrame(DataFrame(RowsOfPages(recv, Len(recv))))
            /\ (N = 0 => ret.frame = DataFrame(ValueArray(recv[1])))

\* A three-page read has returned; its second page had no "value" key.
C1_Witness ==
    /\ GetRowsEnded
    /\ ret.kind = "DataFrame"
    /\ Len(sent) = 3
    /\ recv[1].value = Some(<<Row2, Row1>>)
    /\ recv[2].value = None
    /\ recv[3].value = Some(<<Row1>>)

\* C2: a non-200 response to any GET of a read is the read's last response
\* (no GET follows it), the read then raises an exception carrying the status
\* code and the response body, and nothing is returned.
C2_FailedGetAbortsRead ==
    call.op = "get_rows" =>
        \A i \in 1..Len(recv) :
            ~Is200(recv[i]) =>
                /\ i = Len(recv)
                /\ Len(sent) = Len(recv)
                /\ pc \in {"get_first_check", "get_next_check", "ready"}
                /\ ret.kind = "none"
                /\ pc = "ready" =>
                        /\ exc.type = "Exception"
                        /\ Carries(exc.msg, ToString(recv[i].status_code))
                        /\ Carries(exc.msg, recv[i].content)

\* A read has raised on its second GET, with rows of the first page in hand.
C2_Witness ==
    /\ GetRowsEnded
    /\ Len(recv) = 2
    /\ recv[2].status_code = 503
    /\ Len(df.data) > 0
    /\ exc.type = "Exception"

\* C3: insert_rows POSTs the rows one by one in row order, all to
\* base + 'api/data/v9.2/' + entity, never raises and never stops early
\* whatever the statuses; each row logs a success when its status is 204 and
\* a failure otherwise, so at the end there are k POSTs, as many success
\* entries as 204s and as many failure entries as other statuses, and the
\* call returns None.
C3_InsertIsBestEffortPerRow ==
    call.op = "insert_rows" =>
        /\ exc = NoException
        /\ Len(sent) = idx /\ Len(recv) = idx /\ Len(log) = idx
        /\ \A i \in 1..Len(sent) :
                /\ sent[i].method = "POST"
                /\ sent[i].uri = environmentURI[1] \o "api/data/v9.2/" \o call.entity
                /\ sent[i].json = Some(Payload(call.frame, i))
                /\ log[i].level = IF Is204(recv[i]) THEN "INFO" ELSE "ERROR"
        /\ IF pc = "ready"
           THEN /\ Len(sent) = Len(call.frame.data)
                /\ Count(log, IsInfo) = Count(recv, Is204)
                /\ Count(log, IsError) = Len(recv) - Count(recv, Is204)
                /\ Count(log, IsInfo) + Count(log, IsError) = Len(call.frame.data)
                /\ ret = ReturnedNone
           ELSE /\ pc = "post"
                /\ idx < Len(call.frame.data)
                /\ ret = NotReturned

\* Three rows were inserted; the second one failed.
C3_Witness ==
    /\ InsertRowsEnded
    /\ Len(call.frame.data) = 3
    /\ recv[1].status_code = 204
    /\ recv[2].status_code = 400
    /\ recv[3].status_code = 204

\* The request URI with a parameter for each of top / columns / filter that
\* was supplied: top not None, columns not empty, filter not None.
SuppliedParametersURI(base, entity, top, columns, filter) ==
    LET topParam == IF top # None THEN <<"$top=" \o ToString(top[1])>> ELSE <<>>
        selectParam == IF Len(columns) > 0 THEN <<"$select=" \o Join(",", columns)>> ELSE <<>>
        filterParam == IF filter # None THEN <<"$filter=" \o filter[1]>> ELSE <<>>
        params == topParam \o selectParam \o filterParam
    IN  base \o "api/data/v9.2/" \o entity
            \o (IF Len(params) > 0 THEN "?" \o Join("&", params) ELSE "")

\* C4: the first GET of a read goes to base + 'api/data/v9.2/' + entity
\* followed by '?' and the '&'-separated parameters $top, $select, $filter, in
\* that order, for exactly those of top / columns / filter that were supplied.
C4_FirstURIListsSuppliedParameters ==
    (call.op = "get_rows" /\ Len(sent) >= 1) =>
        sent[1].uri = SuppliedParametersURI(environmentURI[1], call.entity, call.top,
                                            call.columns, call.filter)

\* C5: with a required key missing from the configuration the authenticator
\* is never called, no session and no base URI are stored, no request is
\* sent, and construction ends in the KeyError of the first missing key.
C5_MissingKeyFailsBeforeAuthentication ==
    RequiredKeys \ ConfigKeys(config) # {} =>
        /\ authCalls = 0
        /\ session = NoSession
        /\ environmentURI = None
        /\ sent = <<>>
        /\ call = NoCall
        /\ pc \in {"new", "config_error"}
        /\ pc = "config_error" =>
                /\ exc.type = "KeyError"
                /\ exc.msg[1] \in RequiredKeys \ ConfigKeys(config)

\* Construction has failed on a configuration that lacks only tenantID, the
\* key read last.
C5_Witness ==
    /\ pc = "config_error"
    /\ ConfigKeys(config) = RequiredKeys \ {"tenantID"}

\* C6 as stated: the exception of a failed authentication carries the error
\* code, the description and the correlation id.
C6_ErrorCarriesCorrelationId ==
    pc = "auth_error" =>
        /\ Carries(exc.msg, Get(result.error))
        /\ Carries(exc.msg, Get(result.error_description))
        /\ Carries(exc.msg, Get(result.correlation_id))
        /\ authCalls = 1
        /\ session = NoSession

\* C6, amended: a token response without access token makes construction fail
\* with an exception carrying the error code and the description but not the
\* correlation id, which is only logged (with the two others); the
\* authenticator is called once, no session is stored and no call is made.
C6_AuthenticationFailureIsFatal ==
    (authCalls > 0 /\ result.access_token = None) =>
        /\ authCalls = 1
        /\ session = NoSession
        /\ environmentURI = None
        /\ sent = <<>>
        /\ call = NoCall
        /\ pc \in {"token", "auth_error"}
        /\ pc = "auth_error" =>
                /\ exc.type = "Exception"
                /\ Carries(exc.msg, Get(result.error))
                /\ Carries(exc.msg, Get(result.error_description))
                /\ ~Carries(exc.msg, Get(result.correlation_id))
                /\ \E i \in 1..Len(log) :
                        /\ log[i].level = "ERROR"
                        /\ Carries(log[i].msg, Get(result.error))
                        /\ Carries(log[i].msg, Get(result.error_description))
                        /\ Carries(log[i].msg, Get(result.correlation_id))

\* Construction has failed for want of a token.
C6_Witness ==
    /\ pc = "auth_error"
    /\ result.correlation_id = Some("corr-2")
    /\ authCalls = 1

\* The four headers the constructor sets, for the token it obtained.
ClientHeaders ==
    { <<"Authorization", "Bearer " \o result.access_token[1]>>,
      <<"OData-MaxVersion", "4.0">>,
      <<"OData-Version", "4.0">>,
      <<"Accept", "application/json">> }

\* C7 as stated: the session's headers are exactly the four.
C7_SessionHasOnlyClientHeaders ==
    session.exists => session.headers = ClientHeaders

\* C7, amended: the session's headers are the four, with these values, and
\* besides them only the headers a new requests session starts with and the
\* constructor does not overwrite: User-Agent, Accept-Encoding, Connection.
C7_SessionHasClientAndLibraryHeaders ==
    session.exists =>
        /\ ClientHeaders \subseteq session.headers
        /\ HeaderNames(session.headers \ ClientHeaders)
                = {"User-Agent", "Accept-Encoding", "Connection"}
        /\ Cardinality(session.headers) = Cardinality(HeaderNames(session.headers))

\* The client has just been constructed.
C7_Witness ==
    /\ session.exists
    /\ pc = "ready"
    /\ call = NoCall
    /\ result.access_token # None

\* C8: every GET of a read carries the Prefer header when annotations are
\* asked for, and no GET of a read carries it when they are not.
C8_EveryGetCarriesPreferWhenAsked ==
    call.op = "get_rows" =>
        \A i \in 1..Len(sent) :
            (<<"Prefer", "odata.include-annotations=*">> \in sent[i].headers)
                <=> call.annotations

InCheck == pc \in {"get_first_check", "get_next_check"}

\* A response that ends the pagination: not 200, or 200 without next link.
Terminal(resp) == ~Is200(resp) \/ ~HasLink(resp)

\* C9: the status check ends the read exactly when the response is not 200 or
\* has no next link, and otherwise goes on to GET the next link, whatever
\* was fetched before (no cap, no cycle detection); once such a response
\* has arrived the read ends; and as long as every response has been a 200
\* with a next link the read has not ended.
C9_PaginationEndsExactlyOnTerminalResponse ==
    /\ [][InCheck =>
            IF Terminal(LastResponse)
            THEN pc' = "ready"
            ELSE pc' = "get_next" /\ requestURI' = LastResponse.nextLink[1]]_vars
    /\ (InCheck /\ Terminal(LastResponse)) ~> (pc = "ready")
    /\ []((call.op = "get_rows" /\ \A i \in 1..Len(recv) : ~Terminal(recv[i]))
            => pc # "ready")

\* The server has answered the second GET with the link that GET went to;
\* the read is about to fetch the same URI again.
C9_Witness ==
    /\ pc = "get_next"
    /\ Len(sent) = 2
    /\ requestURI = sent[2].uri
    /\ ENABLED SendGetNext

\* C10: once the session exists no step changes it or the stored base URI,
\* and a read without annotations sends neither Prefer nor Content-Type.
C10_CallsLeaveSessionUnchanged ==
    /\ [][session.exists =>
            session' = session /\ environmentURI' = environmentURI]_vars
    /\ [](call.op = "get_rows" /\ ~call.annotations =>
            \A i \in 1..Len(sent) :
                HeaderNames(sent[i].headers) \cap {"Prefer", "Content-Type"} = {})

\* A read without annotations, made right after a read with annotations, has
\* sent two GETs.
C10_Witness ==
    /\ call.op = "get_rows"
    /\ ~call.annotations
    /\ previous = <<"get_rows", TRUE>>
    /\ Len(sent) = 2

====
